---- MODULE Spec2Model ----
(***************************************************************************)
(* The statement and type grammar of the Leo parser                        *)
(* (compiler/parser/src/parser/statement.rs and type_.rs) as a state       *)
(* machine.  One ParserContext runs parse_statement on a token stream.     *)
(* The recursive descent is made explicit: `stack` holds one frame per     *)
(* active call (function, position in its body, locals), `ret` holds the   *)
(* Result<..> the last returning call handed to its caller.  The tokenizer *)
(* is the environment: every bump reveals the next token of the stream.    *)
(***************************************************************************)
EXTENDS Integers, Sequences, FiniteSets, TLC

VARIABLES
    input,                           \* the tokens the tokenizer has handed over so far
    token,                           \* ParserContext::token, the lookahead
    prev_token,                      \* ParserContext::prev_token
    disallow_circuit_construction,   \* ParserContext::disallow_circuit_construction
    errs,                            \* the handler's emitted (recoverable) diagnostics
    stack,                           \* the active calls, innermost last
    ret                              \* the Result of the call that returned last

vars == <<input, token, prev_token, disallow_circuit_construction, errs, stack, ret>>

\* The token streams of the model: at most MaxTokens tokens before Eof, of
\* which at most MaxCurly are `{` and at most MaxSemicolon are `;`.
MaxTokens == 10
MaxCurly == 2
MaxSemicolon == 2

----------------------------------------------------------------------------
(* Spans and tokens *)

None == [kind |-> "None"]

Min(a, b) == IF a <= b THEN a ELSE b
Max(a, b) == IF a >= b THEN a ELSE b

Span(lo, hi) == [lo |-> lo, hi |-> hi]

\* Span + Span: the smallest span that contains both.
SpanAdd(a, b) == Span(Min(a.lo, b.lo), Max(a.hi, b.hi))

DummySpan == Span(0, 0)

\* The i-th token of the stream covers the source range [i-1, i).
SpannedToken(kind, text, span) == [kind |-> kind, text |-> text, span |-> span]

\* The 15 primitive type tokens.
TYPE_TOKENS ==
    {"I8", "I16", "I32", "I64", "I128", "U8", "U16", "U32", "U64", "U128",
     "Field", "Group", "Address", "Bool", "Char"}

ASSIGN_TOKENS == {"Assign"}

\* A lexeme is <<kind, text>>; text is "" for keywords and punctuation.
Lx(kinds) == {<<k, "">> : k \in kinds}

ExprStart == {<<"Ident", "x">>, <<"Int", "1">>}
StmtStart == Lx({"Return", "If", "For", "Console", "Let", "Const", "LeftCurly"}) \cup ExprStart

\* The names tried after `console.`; anywhere else a name only matters by identity.
ConsoleNames == {<<"Ident", "assert">>, <<"Ident", "error">>, <<"Ident", "log">>, <<"Ident", "frob">>}

\* The token streams of this model: every adjacent pair of tokens is one that
\* some statement of the grammar, or one of its recoverable or fatal misuses,
\* contains; a stream may end (Eof) anywhere.  Successors(k) lists what may
\* follow a token of kind k.
Successors(k) ==
    CASE k \in {"Return", "If", "In", "Assign", "DotDot"} -> ExprStart
      [] k = "Else"       -> StmtStart
      [] k = "For"        -> {<<"Ident", "x">>}
      [] k = "Console"    -> Lx({"Dot"})
      [] k = "Dot"        -> ConsoleNames
      [] k \in {"Let", "Const"} -> {<<"Ident", "x">>} \cup Lx({"LeftParen"})
      [] k = "LeftCurly"  -> StmtStart \cup Lx({"RightCurly"})
      [] k = "RightCurly" -> StmtStart \cup Lx({"RightCurly", "Else", "Semicolon", "Assign"})
      [] k = "Semicolon"  -> StmtStart \cup Lx({"RightCurly"})
      [] k = "LeftParen"  -> ExprStart \cup {<<"StringLit", "s">>} \cup Lx({"RightParen"})
      [] k = "Comma"      -> ExprStart \cup {<<"Ident", "y">>}
      [] k = "RightParen" -> Lx({"Semicolon", "Colon"})
      [] k = "Colon"      -> Lx({"U32"}) \cup {<<"Ident", "x">>}
      [] k = "U32"        -> Lx({"In", "Assign"})
      [] k = "Ident"      -> Lx({"Semicolon", "Assign", "LeftCurly", "Colon", "Comma",
                                 "RightParen", "DotDot", "In", "LeftParen"})
      [] k \in {"Int", "StringLit"} ->
                             Lx({"Semicolon", "Assign", "LeftCurly", "Comma",
                                 "RightParen", "DotDot"})
      [] OTHER            -> {}

First == StmtStart \cup {<<"Eof", "">>}

\* How many tokens of kind k the tokenizer has handed over.
Count(k) == Cardinality({i \in 1..Len(input) : input[i].kind = k})

Spent ==
    (IF Count("LeftCurly") >= MaxCurly THEN Lx({"LeftCurly"}) ELSE {})
    \cup (IF Count("Semicolon") >= MaxSemicolon THEN Lx({"Semicolon"}) ELSE {})

\* What the tokenizer may hand over after the lookahead `t`.
Following(t) ==
    IF t.kind = "Eof" \/ Len(input) >= MaxTokens
    THEN {<<"Eof", "">>}
    ELSE (Successors(t.kind) \ Spent) \cup {<<"Eof", "">>}

\* The token at position n; Eof carries the span of the token before it.
TokenAt(lx, n, last) ==
    IF lx[1] = "Eof" THEN SpannedToken("Eof", "", last.span)
    ELSE SpannedToken(lx[1], lx[2], Span(n - 1, n))

----------------------------------------------------------------------------
(* Results and the call stack *)

Ok(v)  == [tag |-> "Ok", val |-> v]
Err(e) == [tag |-> "Err", err |-> e]
NoRet  == [tag |-> "None"]

ParserError(kind, span) == [kind |-> kind, span |-> span]

Depth == Len(stack)
Top   == stack[Depth]
Pop   == SubSeq(stack, 1, Depth - 1)
SetTop(f)  == [stack EXCEPT ![Depth] = f]
Call(f, g) == Append(SetTop(f), g)

At(fn, pc) == Depth > 0 /\ Top.fn = fn /\ Top.pc = pc

\* ParserContext::bump: the lookahead becomes prev_token, the tokenizer hands
\* over the next token.
bump ==
    \E lx \in Following(token) :
        /\ prev_token' = token
        /\ token' = TokenAt(lx, Len(input) + 1, token)
        /\ input' = Append(input, token')

stay == UNCHANGED <<input, token, prev_token>>

\* return Ok(v) / return Err(e) / `?` on an Err
Return(v)  == stack' = Pop /\ ret' = Ok(v)
Fail(e)    == stack' = Pop /\ ret' = Err(e)
Propagate  == stack' = Pop /\ ret' = ret

\* ParserContext::expect's error
Unexpected(what) == ParserError("unexpected", token.span)

emit_err(e) == errs' = Append(errs, e)

Cursor == Len(input)

Frame(fn) == [fn |-> fn, pc |-> "start"]

----------------------------------------------------------------------------
(* The expression parser (an external collaborator of this layer): primary  *)
(* expressions, and the circuit construction `Identifier { }` that the      *)
(* disallow_circuit_construction flag suppresses.                           *)

ExprFns == {"parse_expression", "parse_conditional_expression"}

ExprFrame(fn) == [fn |-> fn, pc |-> "start", id |-> None]

IdentifierOf(t) == [name |-> t.text, span |-> t.span]

ExpressionIdentifier(t) == [kind |-> "Identifier", name |-> t.text, span |-> t.span]
ExpressionLiteral(t)    == [kind |-> "Literal", lit |-> t.kind, text |-> t.text, span |-> t.span]
ExpressionCircuitInit(id, close) ==
    [kind |-> "CircuitInit", name |-> id.name, span |-> SpanAdd(id.span, close)]

parse_primary_expression ==
    /\ Depth > 0 /\ Top.fn \in ExprFns /\ Top.pc = "start"
    /\ UNCHANGED <<disallow_circuit_construction, errs>>
    /\ IF token.kind = "Ident"
       THEN /\ bump
            /\ stack' = SetTop([Top EXCEPT !.pc = "postfix", !.id = ExpressionIdentifier(token)])
            /\ ret' = NoRet
       ELSE IF token.kind \in {"Int", "StringLit"}
       THEN bump /\ Return(ExpressionLiteral(token))
       ELSE stay /\ Fail(Unexpected("expression"))

parse_postfix_expression ==
    /\ Depth > 0 /\ Top.fn \in ExprFns /\ Top.pc = "postfix"
    /\ UNCHANGED <<disallow_circuit_construction, errs>>
    /\ IF ~disallow_circuit_construction /\ token.kind = "LeftCurly"
       THEN bump /\ stack' = SetTop([Top EXCEPT !.pc = "members"]) /\ ret' = NoRet
       ELSE stay /\ Return(Top.id)

parse_circuit_expression ==
    /\ Depth > 0 /\ Top.fn \in ExprFns /\ Top.pc = "members"
    /\ UNCHANGED <<disallow_circuit_construction, errs>>
    /\ IF token.kind = "RightCurly"
       THEN bump /\ Return(ExpressionCircuitInit(Top.id, token.span))
       ELSE stay /\ Fail(Unexpected("RightCurly"))

----------------------------------------------------------------------------
(* statement.rs *)

\* Statement::X(node); Statement::span() is the node's span.
Statement(variant, node) == [variant |-> variant, span |-> node.span, node |-> node]

\* Statement::dummy(span): the empty block `{}` (statement.rs, line 73).
Statement_dummy(span) == Statement("Block", [statements |-> <<>>, span |-> span])

\* A variant of construct_assignee_access that takes any expression for a target.
construct_assignee_access_any(expr) ==
    Ok([name |-> IF expr.kind = "Literal" THEN expr.text ELSE expr.name, span |-> expr.span])

construct_assignee_access(expr) ==
    IF expr.kind = "Identifier"
    THEN Ok([name |-> expr.name, span |-> expr.span])
    ELSE Err(ParserError("invalid_assignment_target", expr.span))

construct_assignee(expr) ==
    LET id == construct_assignee_access(expr)
    IN  IF id.tag = "Err" THEN id
        ELSE Ok([span |-> expr.span, identifier |-> id.val, accesses |-> <<>>])

\* The sub-parser parse_statement routes the lookahead to, and the variant it
\* wraps the node in ("" when the sub-parser returns a Statement itself).
Route(kind) ==
    CASE kind = "Return"           -> <<"Return", Frame("parse_return_statement")>>
      [] kind = "If"               -> <<"Conditional", Frame("parse_conditional_statement")>>
      [] kind = "For"              -> <<"Iteration", Frame("parse_loop_statement")>>
      [] kind = "Console"          -> <<"Console", Frame("parse_console_statement")>>
      [] kind \in {"Let", "Const"} -> <<"Definition", Frame("parse_definition_statement")>>
      [] kind = "LeftCurly"        -> <<"Block", Frame("parse_block")>>
      [] OTHER                     -> <<"", Frame("parse_assign_statement")>>

\* A call of parse_statement with the cursor on token number `at`.
StatementFrame(at) == [fn |-> "parse_statement", pc |-> "start", variant |-> "", at |-> at]

parse_statement ==
    /\ At("parse_statement", "start")
    /\ stay
    /\ UNCHANGED <<disallow_circuit_construction, errs>>
    /\ ret' = NoRet
    /\ LET r == Route(token.kind)
       IN  stack' = Call([Top EXCEPT !.pc = "ret", !.variant = r[1]], r[2])

parse_statement_ret ==
    /\ At("parse_statement", "ret")
    /\ stay
    /\ UNCHANGED <<disallow_circuit_construction, errs>>
    /\ IF ret.tag = "Err" \/ Top.variant = ""
       THEN Propagate
       ELSE Return(Statement(Top.variant, ret.val))

parse_assign_statement ==
    /\ At("parse_assign_statement", "start")
    /\ stay
    /\ UNCHANGED <<disallow_circuit_construction, errs>>
    /\ ret' = NoRet
    /\ stack' = Call([fn |-> "parse_assign_statement", pc |-> "after_expr", expr |-> None],
                     ExprFrame("parse_expression"))

\* A variant of ExprStmtSpan that leaves the `;` out.
ExprStmtSpan_NoSemicolon(expr, semi) == expr.span

\* The span of the recovered `expr;`.
ExprStmtSpan(expr, semi) == SpanAdd(expr.span, semi.span)

parse_assign_statement_after_expr ==
    /\ At("parse_assign_statement", "after_expr")
    /\ UNCHANGED disallow_circuit_construction
    /\ IF ret.tag = "Err"
       THEN stay /\ Propagate /\ UNCHANGED errs
       ELSE IF token.kind \in ASSIGN_TOKENS
       THEN /\ bump
            /\ UNCHANGED errs
            /\ ret' = NoRet
            /\ stack' = Call([Top EXCEPT !.pc = "after_value", !.expr = ret.val],
                             ExprFrame("parse_expression"))
       ELSE IF token.kind = "Semicolon"
       THEN /\ bump
            /\ emit_err(ParserError("expr_stmts_disallowed", ExprStmtSpan(ret.val, token)))
            /\ Return(Statement_dummy(ExprStmtSpan(ret.val, token)))
       ELSE stay /\ Fail(Unexpected("Semicolon")) /\ UNCHANGED errs

AssignStatement(assignee, value) ==
    [span |-> SpanAdd(assignee.span, value.span), assignee |-> assignee,
     operation |-> "Assign", value |-> value]

parse_assign_statement_after_value ==
    /\ At("parse_assign_statement", "after_value")
    /\ UNCHANGED <<disallow_circuit_construction, errs>>
    /\ IF ret.tag = "Err"
       THEN stay /\ Propagate
       ELSE LET assignee == construct_assignee(Top.expr)
            IN  IF assignee.tag = "Err"
                THEN stay /\ Fail(assignee.err)
                ELSE IF token.kind = "Semicolon"
                THEN bump /\ Return(Statement("Assign", AssignStatement(assignee.val, ret.val)))
                ELSE stay /\ Fail(Unexpected("Semicolon"))

parse_block ==
    /\ At("parse_block", "start")
    /\ UNCHANGED <<disallow_circuit_construction, errs>>
    /\ IF token.kind = "LeftCurly"
       THEN /\ bump
            /\ ret' = NoRet
            /\ stack' = SetTop([fn |-> "parse_block", pc |-> "loop",
                                start |-> token.span, statements |-> <<>>])
       ELSE stay /\ Fail(Unexpected("LeftCurly"))

\* A variant of Block whose span is that of the opening delimiter alone.
Block_OpenOnly(start, close, statements) ==
    [span |-> start, statements |-> statements]

Block(start, close, statements) ==
    [span |-> SpanAdd(start, close), statements |-> statements]

parse_block_loop ==
    /\ At("parse_block", "loop")
    /\ UNCHANGED <<disallow_circuit_construction, errs>>
    /\ IF token.kind = "RightCurly"
       THEN bump /\ Return(Block(Top.start, token.span, Top.statements))
       ELSE /\ stay
            /\ ret' = NoRet
            /\ stack' = Call([Top EXCEPT !.pc = "push"], StatementFrame(Cursor))

\* A variant of parse_block_push that drops a statement's fatal error and goes
\* on with the loop.
parse_block_push_swallow ==
    /\ At("parse_block", "push")
    /\ stay
    /\ UNCHANGED <<disallow_circuit_construction, errs>>
    /\ ret' = NoRet
    /\ stack' = SetTop([Top EXCEPT !.pc = "loop",
                                   !.statements = IF ret.tag = "Err" THEN @
                                                  ELSE Append(@, ret.val)])

parse_block_push ==
    /\ At("parse_block", "push")
    /\ stay
    /\ UNCHANGED <<disallow_circuit_construction, errs>>
    /\ IF ret.tag = "Err"
       THEN Propagate
       ELSE /\ ret' = NoRet
            /\ stack' = SetTop([Top EXCEPT !.pc = "loop",
                                           !.statements = Append(@, ret.val)])

ReturnStatement(start, expression) ==
    [span |-> SpanAdd(start, expression.span), expression |-> expression]

parse_return_statement ==
    /\ At("parse_return_statement", "start")
    /\ UNCHANGED <<disallow_circuit_construction, errs>>
    /\ IF token.kind = "Return"
       THEN /\ bump
            /\ ret' = NoRet
            /\ stack' = Call([fn |-> "parse_return_statement", pc |-> "after_expr",
                              start |-> token.span],
                             ExprFrame("parse_expression"))
       ELSE stay /\ Fail(Unexpected("Return"))

parse_return_statement_after_expr ==
    /\ At("parse_return_statement", "after_expr")
    /\ UNCHANGED <<disallow_circuit_construction, errs>>
    /\ IF ret.tag = "Err"
       THEN stay /\ Propagate
       ELSE IF token.kind = "Semicolon"
       THEN bump /\ Return(ReturnStatement(Top.start, ret.val))
       ELSE stay /\ Fail(Unexpected("Semicolon"))

\* A variant of matches_Block_or_Conditional that forgets the `else if` chain.
matches_Block_only(s) == s.variant = "Block"

\* matches!(s, Statement::Block(_) | Statement::Conditional(_))
matches_Block_or_Conditional(s) == s.variant \in {"Block", "Conditional"}

\* next is an Option: <<>> or <<s>>.
ConditionalStatement(start, condition, block, next) ==
    [span |-> SpanAdd(start, IF next = <<>> THEN block.span ELSE next[1].span),
     condition |-> condition, block |-> block, next |-> next]

parse_conditional_statement ==
    /\ At("parse_conditional_statement", "start")
    /\ UNCHANGED errs
    /\ IF token.kind = "If"
       THEN /\ bump
            /\ disallow_circuit_construction' = TRUE
            /\ ret' = NoRet
            /\ stack' = Call([fn |-> "parse_conditional_statement", pc |-> "after_cond",
                              start |-> token.span, expr |-> None, body |-> None],
                             ExprFrame("parse_conditional_expression"))
       ELSE stay /\ Fail(Unexpected("If")) /\ UNCHANGED disallow_circuit_construction

parse_conditional_statement_after_cond ==
    /\ At("parse_conditional_statement", "after_cond")
    /\ stay
    /\ UNCHANGED errs
    /\ IF ret.tag = "Err"
       THEN Propagate /\ UNCHANGED disallow_circuit_construction
       ELSE /\ disallow_circuit_construction' = FALSE
            /\ ret' = NoRet
            /\ stack' = Call([Top EXCEPT !.pc = "after_body", !.expr = ret.val],
                             Frame("parse_block"))

parse_conditional_statement_after_body ==
    /\ At("parse_conditional_statement", "after_body")
    /\ UNCHANGED <<disallow_circuit_construction, errs>>
    /\ IF ret.tag = "Err"
       THEN stay /\ Propagate
       ELSE IF token.kind = "Else"
       THEN /\ bump
            /\ ret' = NoRet
            /\ stack' = Call([Top EXCEPT !.pc = "after_else", !.body = ret.val],
                             StatementFrame(Cursor + 1))
       ELSE stay /\ Return(ConditionalStatement(Top.start, Top.expr, ret.val, <<>>))

parse_conditional_statement_after_else ==
    /\ At("parse_conditional_statement", "after_else")
    /\ stay
    /\ UNCHANGED disallow_circuit_construction
    /\ IF ret.tag = "Err"
       THEN Propagate /\ UNCHANGED errs
       ELSE /\ IF ~matches_Block_or_Conditional(ret.val)
               THEN emit_err(ParserError("unexpected_statement", ret.val.span))
               ELSE UNCHANGED errs
            /\ Return(ConditionalStatement(Top.start, Top.expr, Top.body, <<ret.val>>))

----------------------------------------------------------------------------
(* type_.rs *)

IntKinds == {"I8", "I16", "I32", "I64", "I128", "U8", "U16", "U32", "U64", "U128"}

\* An Option<IntegerType>: <<>> or <<t>>.
token_to_int_type(kind) == IF kind \in IntKinds THEN <<kind>> ELSE <<>>

\* The (Type, Span) for the lookahead t, which the caller then consumes.
parse_non_ident_types(t) ==
    IF t.kind \notin TYPE_TOKENS THEN Err(ParserError("unexpected", t.span))
    ELSE Ok(<<CASE t.kind = "Field"   -> [kind |-> "Field"]
                [] t.kind = "Group"   -> [kind |-> "Group"]
                [] t.kind = "Address" -> [kind |-> "Address"]
                [] t.kind = "Bool"    -> [kind |-> "Boolean"]
                [] t.kind = "Char"    -> [kind |-> "Char"]
                [] OTHER -> [kind |-> "IntegerType", int |-> token_to_int_type(t.kind)[1]],
              t.span>>)

parse_all_types(t) ==
    IF t.kind = "Ident"
    THEN Ok(<<[kind |-> "Identifier", name |-> t.text], t.span>>)
    ELSE parse_non_ident_types(t)

\* statement.rs calls parse_type: the type grammar's entry point.
parse_type(t) == parse_all_types(t)

----------------------------------------------------------------------------
(* statement.rs, continued *)

IterationStatement(start_span, ident, type_, start, stop, block) ==
    [span |-> SpanAdd(start_span, block.span), variable |-> ident, type_ |-> type_,
     start |-> start, stop |-> stop, inclusive |-> FALSE, block |-> block]

parse_loop_statement ==
    /\ At("parse_loop_statement", "start")
    /\ UNCHANGED <<disallow_circuit_construction, errs>>
    /\ IF token.kind = "For"
       THEN /\ bump
            /\ ret' = NoRet
            /\ stack' = SetTop([fn |-> "parse_loop_statement", pc |-> "ident",
                                start_span |-> token.span, ident |-> None, type_ |-> None,
                                start |-> None, stop |-> None])
       ELSE stay /\ Fail(Unexpected("For"))

parse_loop_statement_ident ==
    /\ At("parse_loop_statement", "ident")
    /\ UNCHANGED <<disallow_circuit_construction, errs>>
    /\ IF token.kind = "Ident"
       THEN /\ bump /\ ret' = NoRet
            /\ stack' = SetTop([Top EXCEPT !.pc = "colon", !.ident = IdentifierOf(token)])
       ELSE stay /\ Fail(Unexpected("ident"))

parse_loop_statement_colon ==
    /\ At("parse_loop_statement", "colon")
    /\ UNCHANGED <<disallow_circuit_construction, errs>>
    /\ IF token.kind = "Colon"
       THEN bump /\ ret' = NoRet /\ stack' = SetTop([Top EXCEPT !.pc = "type"])
       ELSE stay /\ Fail(Unexpected("Colon"))

parse_loop_statement_type ==
    /\ At("parse_loop_statement", "type")
    /\ UNCHANGED <<disallow_circuit_construction, errs>>
    /\ LET ty == parse_type(token)
       IN  IF ty.tag = "Ok"
           THEN /\ bump /\ ret' = NoRet
                /\ stack' = SetTop([Top EXCEPT !.pc = "in", !.type_ = ty.val[1]])
           ELSE stay /\ Fail(ty.err)

parse_loop_statement_in ==
    /\ At("parse_loop_statement", "in")
    /\ UNCHANGED <<disallow_circuit_construction, errs>>
    /\ IF token.kind = "In"
       THEN /\ bump /\ ret' = NoRet
            /\ stack' = Call([Top EXCEPT !.pc = "after_start"], ExprFrame("parse_expression"))
       ELSE stay /\ Fail(Unexpected("In"))

parse_loop_statement_after_start ==
    /\ At("parse_loop_statement", "after_start")
    /\ UNCHANGED errs
    /\ IF ret.tag = "Err"
       THEN stay /\ Propagate /\ UNCHANGED disallow_circuit_construction
       ELSE IF token.kind = "DotDot"
       THEN /\ bump
            /\ disallow_circuit_construction' = TRUE
            /\ ret' = NoRet
            /\ stack' = Call([Top EXCEPT !.pc = "after_stop", !.start = ret.val],
                             ExprFrame("parse_conditional_expression"))
       ELSE stay /\ Fail(Unexpected("DotDot")) /\ UNCHANGED disallow_circuit_construction

parse_loop_statement_after_stop ==
    /\ At("parse_loop_statement", "after_stop")
    /\ stay
    /\ UNCHANGED errs
    /\ IF ret.tag = "Err"
       THEN Propagate /\ UNCHANGED disallow_circuit_construction
       ELSE /\ disallow_circuit_construction' = FALSE
            /\ ret' = NoRet
            /\ stack' = Call([Top EXCEPT !.pc = "after_block", !.stop = ret.val],
                             Frame("parse_block"))

parse_loop_statement_after_block ==
    /\ At("parse_loop_statement", "after_block")
    /\ stay
    /\ UNCHANGED <<disallow_circuit_construction, errs>>
    /\ IF ret.tag = "Err"
       THEN Propagate
       ELSE Return(IterationStatement(Top.start_span, Top.ident, Top.type_,
                                      Top.start, Top.stop, ret.val))

----------------------------------------------------------------------------
(* The delimited-list parser parse_paren_comma_list (an external            *)
(* collaborator): `( elem , elem , ... )`, the element parser applied per   *)
(* slot; an element that yields no node is not pushed.                      *)

ListFrame(inner) ==
    [fn |-> "parse_paren_comma_list", pc |-> "start", inner |-> inner,
     open |-> DummySpan, list |-> <<>>]

parse_paren_comma_list ==
    /\ At("parse_paren_comma_list", "start")
    /\ UNCHANGED <<disallow_circuit_construction, errs>>
    /\ IF token.kind = "LeftParen"
       THEN /\ bump /\ ret' = NoRet
            /\ stack' = SetTop([Top EXCEPT !.pc = "check", !.open = token.span])
       ELSE stay /\ Fail(Unexpected("LeftParen"))

\* The separator after an element: on, to the next slot.
parse_paren_comma_list_sep ==
    /\ At("parse_paren_comma_list", "sep")
    /\ token.kind = "Comma"
    /\ UNCHANGED <<disallow_circuit_construction, errs>>
    /\ bump /\ ret' = NoRet
    /\ stack' = SetTop([Top EXCEPT !.pc = "check"])

\* The loop has ended (the closing delimiter is next, or no separator
\* followed an element): expect the closing delimiter.
parse_paren_comma_list_close ==
    /\ \/ At("parse_paren_comma_list", "check") /\ token.kind = "RightParen"
       \/ At("parse_paren_comma_list", "sep") /\ token.kind # "Comma"
    /\ UNCHANGED <<disallow_circuit_construction, errs>>
    /\ IF token.kind = "RightParen"
       THEN bump /\ Return([list |-> Top.list, span |-> SpanAdd(Top.open, token.span)])
       ELSE stay /\ Fail(Unexpected("RightParen"))

\* An element parser that called a sub-parser has returned.
parse_paren_comma_list_elem ==
    /\ At("parse_paren_comma_list", "after_inner")
    /\ stay
    /\ UNCHANGED <<disallow_circuit_construction, errs>>
    /\ IF ret.tag = "Err"
       THEN Propagate
       ELSE /\ ret' = NoRet
            /\ stack' = SetTop([Top EXCEPT !.pc = "sep", !.list = Append(@, ret.val)])

\* The frame of the function whose closure the list parser is running.
Caller == stack[Depth - 1]

InSlot(inner) ==
    /\ At("parse_paren_comma_list", "check")
    /\ Top.inner = inner
    /\ token.kind # "RightParen"

----------------------------------------------------------------------------
(* statement.rs, continued *)

\* The format string the first slot's token gives: Some(chars), an Option as
\* <<chars>>; and whether the token was a string literal.
IsStringLit(t) == t.kind = "StringLit"
\* A variant of FormatString that takes the text of whatever token came first.
FormatString_AnyToken(t) == <<t.text>>
FormatString(t) == IF IsStringLit(t) THEN <<t.text>> ELSE <<"">>

\* string.unwrap_or_default()
unwrap_or_default(string) == IF string = <<>> THEN "" ELSE string[1]

ConsoleArgs(string, span, parameters) ==
    [string |-> unwrap_or_default(string), span |-> span, parameters |-> parameters]

parse_console_args ==
    /\ At("parse_console_args", "start")
    /\ stay
    /\ UNCHANGED <<disallow_circuit_construction, errs>>
    /\ ret' = NoRet
    /\ stack' = Call([fn |-> "parse_console_args", pc |-> "after_list", string |-> <<>>],
                     ListFrame("console_args"))

\* The closure, first slot: string.is_none().
parse_console_args_string ==
    /\ InSlot("console_args")
    /\ Caller.string = <<>>
    /\ UNCHANGED disallow_circuit_construction
    /\ bump
    /\ IF IsStringLit(token)
       THEN UNCHANGED errs
       ELSE emit_err(ParserError("unexpected_str", token.span))
    /\ ret' = NoRet
    /\ stack' = [stack EXCEPT ![Depth].pc = "sep",
                              ![Depth - 1].string = FormatString(token)]

\* The closure, every later slot: p.parse_expression().map(Some).
parse_console_args_parameter ==
    /\ InSlot("console_args")
    /\ Caller.string # <<>>
    /\ stay
    /\ UNCHANGED <<disallow_circuit_construction, errs>>
    /\ ret' = NoRet
    /\ stack' = Call([Top EXCEPT !.pc = "after_inner"], ExprFrame("parse_expression"))

parse_console_args_after_list ==
    /\ At("parse_console_args", "after_list")
    /\ stay
    /\ UNCHANGED <<disallow_circuit_construction, errs>>
    /\ IF ret.tag = "Err"
       THEN Propagate
       ELSE Return(ConsoleArgs(Top.string, ret.val.span, ret.val.list))

\* The ConsoleFunction variant for the name after `console.`, and whether the
\* name is one of assert, error, log.
KnownConsoleFunction(name) == name \in {"assert", "error", "log"}
\* A variant of ConsoleFunctionFor that takes an unknown name for `error`.
ConsoleFunctionFor_Error(name) ==
    CASE name = "assert" -> "Assert"
      [] name = "log"    -> "Log"
      [] OTHER           -> "Error"
ConsoleFunctionFor(name) ==
    CASE name = "assert" -> "Assert"
      [] name = "error"  -> "Error"
      [] name = "log"    -> "Log"
      [] OTHER           -> "Log"

\* ConsoleFunction::span() is the span of its expression or of its arguments.
ConsoleFunction(variant, payload) == [variant |-> variant, span |-> payload.span, args |-> payload]

ConsoleStatement(keyword, function) ==
    [span |-> SpanAdd(keyword, function.span), function |-> function]

parse_console_statement ==
    /\ At("parse_console_statement", "start")
    /\ UNCHANGED <<disallow_circuit_construction, errs>>
    /\ IF token.kind = "Console"
       THEN /\ bump /\ ret' = NoRet
            /\ stack' = SetTop([fn |-> "parse_console_statement", pc |-> "dot",
                                keyword |-> token.span, variant |-> ""])
       ELSE stay /\ Fail(Unexpected("Console"))

parse_console_statement_dot ==
    /\ At("parse_console_statement", "dot")
    /\ UNCHANGED <<disallow_circuit_construction, errs>>
    /\ IF token.kind = "Dot"
       THEN bump /\ ret' = NoRet /\ stack' = SetTop([Top EXCEPT !.pc = "function"])
       ELSE stay /\ Fail(Unexpected("Dot"))

parse_console_statement_function ==
    /\ At("parse_console_statement", "function")
    /\ UNCHANGED disallow_circuit_construction
    /\ IF token.kind = "Ident"
       THEN /\ bump /\ ret' = NoRet
            /\ IF KnownConsoleFunction(token.text)
               THEN UNCHANGED errs
               ELSE emit_err(ParserError("unexpected_ident", token.span))
            /\ IF token.text = "assert"
               THEN stack' = SetTop([Top EXCEPT !.pc = "assert", !.variant = "Assert"])
               ELSE stack' = Call([Top EXCEPT !.pc = "semicolon",
                                              !.variant = ConsoleFunctionFor(token.text)],
                                  Frame("parse_console_args"))
       ELSE stay /\ Fail(Unexpected("ident")) /\ UNCHANGED errs

parse_console_statement_assert ==
    /\ At("parse_console_statement", "assert")
    /\ UNCHANGED <<disallow_circuit_construction, errs>>
    /\ IF token.kind = "LeftParen"
       THEN /\ bump /\ ret' = NoRet
            /\ stack' = Call([Top EXCEPT !.pc = "assert_close"], ExprFrame("parse_expression"))
       ELSE stay /\ Fail(Unexpected("LeftParen"))

parse_console_statement_assert_close ==
    /\ At("parse_console_statement", "assert_close")
    /\ UNCHANGED <<disallow_circuit_construction, errs>>
    /\ IF ret.tag = "Err"
       THEN stay /\ Propagate
       ELSE IF token.kind = "RightParen"
       THEN bump /\ ret' = ret /\ stack' = SetTop([Top EXCEPT !.pc = "semicolon"])
       ELSE stay /\ Fail(Unexpected("RightParen"))

parse_console_statement_semicolon ==
    /\ At("parse_console_statement", "semicolon")
    /\ UNCHANGED <<disallow_circuit_construction, errs>>
    /\ IF ret.tag = "Err"
       THEN stay /\ Propagate
       ELSE IF token.kind = "Semicolon"
       THEN bump /\ Return(ConsoleStatement(Top.keyword, ConsoleFunction(Top.variant, ret.val)))
       ELSE stay /\ Fail(Unexpected("Semicolon"))

\* Declare::Let | Declare::Const for the keyword consumed.
Declare(t) == IF t.kind = "Let" THEN "Let" ELSE "Const"

VariableName(decl_ty, name) ==
    [span |-> name.span, mutable |-> (decl_ty = "Let"), identifier |-> name]

\* A variant of SingleInParens that flags every parenthesized list of names.
SingleInParens_Any(names) == Len(names) >= 1

\* vars.len() == 1
SingleInParens(names) == Len(names) = 1

DefinitionStatement(decl_span, decl_type, variable_names, type_, expr) ==
    [span |-> SpanAdd(decl_span, expr.span), declaration_type |-> decl_type,
     variable_names |-> variable_names, type_ |-> type_, value |-> expr]

parse_definition_statement ==
    /\ At("parse_definition_statement", "start")
    /\ UNCHANGED <<disallow_circuit_construction, errs>>
    /\ IF token.kind \in {"Let", "Const"}
       THEN /\ bump /\ ret' = NoRet
            /\ stack' = SetTop([fn |-> "parse_definition_statement", pc |-> "names",
                                decl_span |-> token.span, decl_type |-> Declare(token),
                                variable_names |-> <<>>, type_ |-> None])
       ELSE stay /\ Fail(Unexpected("Let, Const"))

\* Lines 240-252: a parenthesized list, or one bare name.
parse_definition_statement_names ==
    /\ At("parse_definition_statement", "names")
    /\ UNCHANGED <<disallow_circuit_construction, errs>>
    /\ IF token.kind = "LeftParen"
       THEN /\ stay /\ ret' = NoRet
            /\ stack' = Call([Top EXCEPT !.pc = "after_list"], ListFrame("variable_name"))
       ELSE IF token.kind = "Ident"
       THEN /\ bump /\ ret' = NoRet
            /\ stack' = SetTop([Top EXCEPT !.pc = "colon",
                   !.variable_names = <<VariableName(Top.decl_type, IdentifierOf(token))>>])
       ELSE stay /\ Fail(Unexpected("ident"))

\* The closure of line 242: parse_variable_name(decl_type, decl_span).map(Some).
parse_variable_name ==
    /\ InSlot("variable_name")
    /\ UNCHANGED <<disallow_circuit_construction, errs>>
    /\ IF token.kind = "Ident"
       THEN /\ bump /\ ret' = NoRet
            /\ stack' = SetTop([Top EXCEPT !.pc = "sep",
                   !.list = Append(@, VariableName(Caller.decl_type, IdentifierOf(token)))])
       ELSE stay /\ Fail(Unexpected("ident"))

parse_definition_statement_after_list ==
    /\ At("parse_definition_statement", "after_list")
    /\ stay
    /\ UNCHANGED disallow_circuit_construction
    /\ IF ret.tag = "Err"
       THEN Propagate /\ UNCHANGED errs
       ELSE /\ IF SingleInParens(ret.val.list)
               THEN emit_err(ParserError("invalid_parens_around_single_variable",
                                         ret.val.list[1].span))
               ELSE UNCHANGED errs
            /\ ret' = NoRet
            /\ stack' = SetTop([Top EXCEPT !.pc = "colon", !.variable_names = ret.val.list])

parse_definition_statement_colon ==
    /\ At("parse_definition_statement", "colon")
    /\ UNCHANGED <<disallow_circuit_construction, errs>>
    /\ IF token.kind = "Colon"
       THEN bump /\ ret' = NoRet /\ stack' = SetTop([Top EXCEPT !.pc = "type"])
       ELSE stay /\ Fail(Unexpected("Colon"))

parse_definition_statement_type ==
    /\ At("parse_definition_statement", "type")
    /\ UNCHANGED <<disallow_circuit_construction, errs>>
    /\ LET ty == parse_type(token)
       IN  IF ty.tag = "Ok"
           THEN /\ bump /\ ret' = NoRet
                /\ stack' = SetTop([Top EXCEPT !.pc = "assign", !.type_ = ty.val[1]])
           ELSE stay /\ Fail(ty.err)

parse_definition_statement_assign ==
    /\ At("parse_definition_statement", "assign")
    /\ UNCHANGED <<disallow_circuit_construction, errs>>
    /\ IF token.kind = "Assign"
       THEN /\ bump /\ ret' = NoRet
            /\ stack' = Call([Top EXCEPT !.pc = "after_value"], ExprFrame("parse_expression"))
       ELSE stay /\ Fail(Unexpected("Assign"))

parse_definition_statement_after_value ==
    /\ At("parse_definition_statement", "after_value")
    /\ UNCHANGED <<disallow_circuit_construction, errs>>
    /\ IF ret.tag = "Err"
       THEN stay /\ Propagate
       ELSE IF token.kind = "Semicolon"
       THEN bump /\ Return(DefinitionStatement(Top.decl_span, Top.decl_type,
                                               Top.variable_names, Top.type_, ret.val))
       ELSE stay /\ Fail(Unexpected("Semicolon"))

----------------------------------------------------------------------------
(* One ParserContext, one call of parse_statement *)

Init ==
    /\ \E lx \in First :
          token = TokenAt(lx, 1, [span |-> DummySpan])
    /\ input = <<token>>
    /\ prev_token = SpannedToken("Dummy", "", DummySpan)
    /\ disallow_circuit_construction = FALSE
    /\ errs = <<>>
    /\ stack = <<StatementFrame(1)>>
    /\ ret = NoRet

Next ==
    \/ parse_primary_expression
    \/ parse_postfix_expression
    \/ parse_circuit_expression
    \/ parse_statement
    \/ parse_statement_ret
    \/ parse_assign_statement
    \/ parse_assign_statement_after_expr
    \/ parse_assign_statement_after_value
    \/ parse_block
    \/ parse_block_loop
    \/ parse_block_push
    \/ parse_return_statement
    \/ parse_return_statement_after_expr
    \/ parse_conditional_statement
    \/ parse_conditional_statement_after_cond
    \/ parse_conditional_statement_after_body
    \/ parse_conditional_statement_after_else
    \/ parse_loop_statement
    \/ parse_loop_statement_ident
    \/ parse_loop_statement_colon
    \/ parse_loop_statement_type
    \/ parse_loop_statement_in
    \/ parse_loop_statement_after_start
    \/ parse_loop_statement_after_stop
    \/ parse_loop_statement_after_block
    \/ parse_paren_comma_list
    \/ parse_paren_comma_list_sep
    \/ parse_paren_comma_list_close
    \/ parse_paren_comma_list_elem
    \/ parse_console_args
    \/ parse_console_args_string
    \/ parse_console_args_parameter
    \/ parse_console_args_after_list
    \/ parse_console_statement
    \/ parse_console_statement_dot
    \/ parse_console_statement_function
    \/ parse_console_statement_assert
    \/ parse_console_statement_assert_close
    \/ parse_console_statement_semicolon
    \/ parse_definition_statement
    \/ parse_definition_statement_names
    \/ parse_variable_name
    \/ parse_definition_statement_after_list
    \/ parse_definition_statement_colon
    \/ parse_definition_statement_type
    \/ parse_definition_statement_assign
    \/ parse_definition_statement_after_value

Spec == Init /\ [][Next]_vars

Done == stack = <<>>

\* The parse runs to its end: no step is withheld forever.
FairSpec == Spec /\ WF_vars(Next)

----------------------------------------------------------------------------
(* Reading the token stream back *)

\* The number of the token that covers the source range [lo, lo + 1).
TokenNo(lo) == lo + 1

\* `{` minus `}` among the tokens i..j.
Balance(i, j) ==
    Cardinality({k \in i..j : input[k].kind = "LeftCurly"})
    - Cardinality({k \in i..j : input[k].kind = "RightCurly"})

\* Token j is the delimiter that closes the `{` at token i.
MatchingClose(i, j) ==
    /\ input[i].kind = "LeftCurly"
    /\ input[j].kind = "RightCurly"
    /\ Balance(i, j) = 0
    /\ \A k \in i..(j - 1) : Balance(i, k) > 0

\* The diagnostics of one kind whose span lies within [lo, hi).
Diagnostics(kind, lo, hi) ==
    {i \in 1..Len(errs) : errs[i].kind = kind /\ errs[i].span.lo >= lo /\ errs[i].span.hi <= hi}

\* A sub-parser has just returned Ok to parse_statement, which wraps it in `variant`.
Returned(variant) ==
    At("parse_statement", "ret") /\ Top.variant = variant /\ ret.tag = "Ok"

----------------------------------------------------------------------------
(* C1 *)

\* C1: the disallow_circuit_construction flag is true only while the condition
\* of a conditional or the stop expression of a loop is being parsed (the
\* expression parser is running, or has just handed its expression back); so it
\* is false whenever parse_conditional_statement or parse_loop_statement has
\* returned, with a node or with a fatal error.
C1_FlagOnlyDuringCondition ==
    disallow_circuit_construction =>
        /\ Depth > 0
        /\ \/ Top.fn = "parse_conditional_expression"
           \/ Top.pc \in {"after_cond", "after_stop"}

----------------------------------------------------------------------------
(* C2 *)

\* C2: an expression followed by `;` is no fatal error: parse_assign_statement
\* consumes the `;`, appends exactly one expr_stmts_disallowed diagnostic and
\* returns the dummy statement, both spanning from the first token of the
\* expression (where parse_statement was called) to the end of the `;`.
C2_ExprStmtRecovers ==
    [][ (At("parse_assign_statement", "after_expr") /\ ret.tag = "Ok"
            /\ token.kind = "Semicolon")
        => LET span == Span(stack[Depth - 1].at - 1, token.span.hi)
           IN  /\ ret' = Ok(Statement_dummy(span))
               /\ errs' = Append(errs, ParserError("expr_stmts_disallowed", span))
               /\ prev_token' = token
               /\ Len(input') = Cursor + 1
               /\ stack' = Pop ]_vars

\* `x { } ;` has been recovered: a dummy of more than two tokens.
C2_Witness ==
    /\ Returned("")
    /\ ret.val.variant = "Block"
    /\ ret.val.node.statements = <<>>
    /\ prev_token.kind = "Semicolon"
    /\ ret.val.span.hi - ret.val.span.lo >= 4
    /\ Len(errs) >= 1
    /\ errs[Len(errs)] = ParserError("expr_stmts_disallowed", ret.val.span)

----------------------------------------------------------------------------
(* C3 *)

\* C3: `lhs = rhs` with lhs not a bare identifier and rhs parsed: the call
\* returns the fatal invalid_assignment_target error with the span of lhs (from
\* the statement's first token to the token before `=`), no statement, and
\* neither consumes a token nor emits a diagnostic.
C3_InvalidAssignmentTarget ==
    [][ (At("parse_assign_statement", "after_value") /\ ret.tag = "Ok"
            /\ Top.expr.kind # "Identifier")
        => /\ ret' = Err(ParserError("invalid_assignment_target", Top.expr.span))
           /\ Top.expr.span.lo = stack[Depth - 1].at - 1
           /\ input[Top.expr.span.hi + 1].kind = "Assign"
           /\ stack' = Pop
           /\ UNCHANGED <<input, errs>> ]_vars

\* `x { } = rhs` has been refused.
C3_Witness ==
    /\ At("parse_statement", "ret")
    /\ ret.tag = "Err"
    /\ ret.err.kind = "invalid_assignment_target"
    /\ ret.err.span.hi - ret.err.span.lo = 3
    /\ input[ret.err.span.hi + 1].kind = "Assign"

----------------------------------------------------------------------------
(* C4 *)

\* C4: after `else` and a statement s that parsed, the conditional is returned
\* with next = s, and the else clause appends one unexpected_statement
\* diagnostic if s is neither a Block nor a Conditional and nothing if it is;
\* with no `else`, next is absent and nothing is appended.
C4_ElseClause ==
    [][ /\ (At("parse_conditional_statement", "after_else") /\ ret.tag = "Ok")
           => /\ ret'.tag = "Ok"
              /\ ret'.val.next = <<ret.val>>
              /\ stack' = Pop
              /\ errs' = IF ret.val.variant \in {"Block", "Conditional"}
                         THEN errs
                         ELSE Append(errs, ParserError("unexpected_statement", ret.val.span))
        /\ (At("parse_conditional_statement", "after_body") /\ ret.tag = "Ok"
               /\ token.kind # "Else")
           => /\ ret'.tag = "Ok"
              /\ ret'.val.next = <<>>
              /\ stack' = Pop
              /\ errs' = errs ]_vars

\* `if c { } else return e;` has been parsed.
C4_Witness ==
    /\ Returned("Conditional")
    /\ ret.val.next # <<>>
    /\ ret.val.next[1].variant = "Return"
    /\ Cardinality(Diagnostics("unexpected_statement", 0, Cursor)) = 1

----------------------------------------------------------------------------
(* C5 *)

\* parse_block has just returned Ok to one of its three callers.
BlockReturned ==
    /\ ret.tag = "Ok"
    /\ \/ At("parse_statement", "ret") /\ Top.variant = "Block"
       \/ At("parse_conditional_statement", "after_body")
       \/ At("parse_loop_statement", "after_block")

\* The number of the token the cursor was on when that parse_block was called.
BlockCalledAt ==
    CASE Top.fn = "parse_statement"              -> Top.at
      [] Top.fn = "parse_conditional_statement"  -> Top.expr.span.hi + 1
      [] Top.fn = "parse_loop_statement"         -> Top.stop.span.hi + 1

\* The tokens that end a statement of the block opened at token `open`: a `;`
\* or a `}` that brings the nesting back to the block's own level (a `}` that
\* `else` or `;` follows ends no statement).
StatementEnds(open, close) ==
    {k \in (open + 1)..(close - 1) :
        /\ Balance(open, k) = 1
        /\ \/ input[k].kind = "Semicolon"
           \/ input[k].kind = "RightCurly" /\ input[k + 1].kind \notin {"Else", "Semicolon"}}

\* The first of the tokens `ends` at or after token `from` (0 if there is none).
FirstEnd(ends, from) ==
    LET later == {k \in ends : k >= from}
    IN  IF later = {} THEN 0 ELSE CHOOSE k \in later : \A j \in later : k <= j

\* The statements of b, in order, are the statements between its delimiters:
\* the first starts right after `{`, each next one right after the token that
\* ends the one before it, and `}` follows the end of the last.
Tiles(b) ==
    LET n == Len(b.statements)
        open == TokenNo(b.span.lo)
        ends == StatementEnds(open, b.span.hi)
        start(i) == TokenNo(b.statements[i].span.lo)
    IN  /\ \A i \in 1..n :
              /\ FirstEnd(ends, start(i)) # 0
              /\ start(i) = 1 + (IF i = 1 THEN open ELSE FirstEnd(ends, start(i - 1)))
        /\ b.span.hi = 1 + (IF n = 0 THEN open ELSE FirstEnd(ends, start(n)))

\* C5: a Block that parse_block returns starts at the `{` the cursor was on,
\* ends at the `}` matching it, the cursor is on the token right after that
\* `}`, and its statements are, one each and in source order, the statements
\* between the two delimiters.
C5_BlockConsumesItsDelimiters ==
    BlockReturned =>
        LET b == ret.val
        IN  /\ TokenNo(b.span.lo) = BlockCalledAt
            /\ MatchingClose(TokenNo(b.span.lo), b.span.hi)
            /\ Cursor = b.span.hi + 1
            /\ prev_token = input[b.span.hi]
            /\ Tiles(b)
            /\ Len(b.statements) = Cardinality(StatementEnds(TokenNo(b.span.lo), b.span.hi))

\* A block of three statements, one of them a block, has been returned.
C5_Witness ==
    /\ BlockReturned
    /\ Len(ret.val.statements) = 3
    /\ \E i \in 1..3 : ret.val.statements[i].node.span.hi - ret.val.statements[i].node.span.lo = 2
                       /\ ret.val.statements[i].variant = "Block"
                       /\ input[ret.val.statements[i].span.hi].kind = "RightCurly"

----------------------------------------------------------------------------
(* C6 *)

\* The Type a type token stands for, read off the token.
TypeOfToken(t) ==
    IF t.kind = "Ident" THEN [kind |-> "Identifier", name |-> t.text]
    ELSE IF t.kind = "U32" THEN [kind |-> "IntegerType", int |-> "U32"]
    ELSE [kind |-> t.kind]

\* A definition without its spans.
Shape(d) ==
    [declaration_type |-> d.declaration_type,
     names |-> [i \in 1..Len(d.variable_names) |->
                   <<d.variable_names[i].identifier.name, d.variable_names[i].mutable>>],
     type_ |-> d.type_,
     value |-> <<d.value.kind, IF d.value.kind = "Literal" THEN d.value.text ELSE d.value.name>>]

\* The definition `kw x : T = v;` declares, whatever surrounds x: v is the
\* expression of `len` tokens that starts with the token v1.
Declared(kw, x, T, v1, len) ==
    [declaration_type |-> IF kw.kind = "Let" THEN "Let" ELSE "Const",
     names |-> <<<<x.text, kw.kind = "Let">>>>,
     type_ |-> TypeOfToken(T),
     value |-> <<IF v1.kind = "Int" THEN "Literal"
                 ELSE IF len = 1 THEN "Identifier" ELSE "CircuitInit", v1.text>>]

\* The diagnostics emitted from source offset lo on.
DiagnosticsFrom(lo) == {i \in 1..Len(errs) : errs[i].span.lo >= lo}

\* C6: `kw (x) : T = v;` and `kw x : T = v;` give the same definition (kind,
\* the one name, type, value), the first with exactly one diagnostic,
\* invalid_parens_around_single_variable at x, the second with none; a list
\* of two or more names gets no such diagnostic.
C6_ParensAroundSingleVariable ==
    /\ Returned("Definition") =>
          LET d == ret.val
              p == Top.at
              parens == input[p + 1].kind = "LeftParen"
              n == IF parens THEN p + 2 ELSE p + 1
              c == IF parens THEN n + 2 ELSE n + 1
          IN  (input[n].kind = "Ident" /\ input[c].kind = "Colon"
                  /\ (parens => input[n + 1].kind = "RightParen"))
              => /\ Shape(d) = Declared(input[p], input[n], input[c + 1], input[c + 3],
                                        d.value.span.hi - d.value.span.lo)
                 /\ TokenNo(d.value.span.lo) = c + 3
                 /\ input[d.value.span.hi + 1].kind = "Semicolon"
                 /\ IF parens
                    THEN /\ Cardinality(DiagnosticsFrom(p - 1)) = 1
                         /\ \A i \in DiagnosticsFrom(p - 1) :
                               errs[i] = ParserError("invalid_parens_around_single_variable",
                                                     input[n].span)
                    ELSE DiagnosticsFrom(p - 1) = {}
    /\ \A i \in 1..Depth :
          (stack[i].fn = "parse_definition_statement" /\ stack[i].pc # "start"
              /\ Len(stack[i].variable_names) >= 2)
          => Diagnostics("invalid_parens_around_single_variable",
                         stack[i].decl_span.lo, Cursor) = {}

\* `const (x) : T = v;` has been parsed.
C6_Witness ==
    /\ Returned("Definition")
    /\ input[Top.at].kind = "Const"
    /\ input[Top.at + 1].kind = "LeftParen"
    /\ input[Top.at + 3].kind = "RightParen"
    /\ Len(ret.val.variable_names) = 1
    /\ Len(errs) = 1

----------------------------------------------------------------------------
(* C7 *)

\* parse_console_args has just returned Ok to parse_console_statement.
ConsoleArgsReturned ==
    /\ At("parse_console_statement", "semicolon")
    /\ Top.variant \in {"Error", "Log"}
    /\ ret.tag = "Ok"

\* The parameters of a are the elements after the first slot, in order: each
\* starts right after the `,` that follows the element before it, and `)`
\* follows the last element (or its trailing `,`).
ParametersInOrder(a) ==
    LET m == Len(a.parameters)
        open == TokenNo(a.span.lo)
        last(i) == IF i = 0 THEN open + 1 ELSE a.parameters[i].span.hi
    IN  /\ \A i \in 1..m :
              /\ input[last(i - 1) + 1].kind = "Comma"
              /\ TokenNo(a.parameters[i].span.lo) = last(i - 1) + 2
        /\ \/ a.span.hi = last(m) + 1
           \/ a.span.hi = last(m) + 2 /\ input[last(m) + 1].kind = "Comma"

UnexpectedStr(a) == Diagnostics("unexpected_str", a.span.lo, a.span.hi)

\* C7 as claimed: the format string is the first element's characters if that
\* is a string literal; in every other case it is empty and one unexpected_str
\* diagnostic was emitted.  The parameters are the elements after the first.
C7_FormatString_Claimed ==
    ConsoleArgsReturned =>
        LET a == ret.val
            first == input[TokenNo(a.span.lo) + 1]
        IN  /\ IF first.kind = "StringLit"
               THEN a.string = first.text /\ UnexpectedStr(a) = {}
               ELSE a.string = "" /\ Cardinality(UnexpectedStr(a)) = 1
            /\ a.parameters = <<>> \/ ParametersInOrder(a)

\* C7, amended: the format string is the first element's characters if that is
\* a string literal (no unexpected_str diagnostic); if the list has a first
\* element that is no string literal, it is empty and exactly one
\* unexpected_str diagnostic was emitted, at that element; if the list is
\* empty, it is empty and no diagnostic was emitted.  The first slot gives no
\* parameter; the parameters are the elements after it, in source order.
C7_FormatString ==
    ConsoleArgsReturned =>
        LET a == ret.val
            first == input[TokenNo(a.span.lo) + 1]
        IN  IF a.span.hi = TokenNo(a.span.lo) + 1
            THEN a.string = "" /\ UnexpectedStr(a) = {} /\ a.parameters = <<>>
            ELSE /\ IF first.kind = "StringLit"
                    THEN a.string = first.text /\ UnexpectedStr(a) = {}
                    ELSE /\ a.string = ""
                         /\ Cardinality(UnexpectedStr(a)) = 1
                         /\ \A i \in UnexpectedStr(a) : errs[i].span = first.span
                 /\ ParametersInOrder(a)

\* `console.log(x, e)`: a first element that is no string literal, and a parameter.
C7_Witness ==
    /\ ConsoleArgsReturned
    /\ input[TokenNo(ret.val.span.lo) + 1].kind = "Ident"
    /\ Len(ret.val.parameters) = 1
    /\ ret.val.string = ""

----------------------------------------------------------------------------
(* C8 *)

\* C8: the identifier after `console.` never gives a fatal error: assert,
\* error and log select Assert, Error and Log with no diagnostic, any other
\* name appends one unexpected_ident diagnostic at the name and selects Log;
\* all but assert go on to parse an argument list, and the statement
\* returned carries the function selected.
C8_ConsoleFunction ==
    [][ /\ (At("parse_console_statement", "function") /\ token.kind = "Ident")
           => LET want == CASE token.text = "assert" -> "Assert"
                            [] token.text = "error"  -> "Error"
                            [] OTHER                 -> "Log"
              IN  /\ ret'.tag # "Err"
                  /\ Len(stack') >= Depth
                  /\ stack'[Depth].variant = want
                  /\ errs' = IF token.text \in {"assert", "error", "log"}
                             THEN errs
                             ELSE Append(errs, ParserError("unexpected_ident", token.span))
                  /\ token.text # "assert"
                     => (Len(stack') = Depth + 1 /\ stack'[Depth + 1].fn = "parse_console_args")
        /\ (At("parse_console_statement", "semicolon") /\ ret.tag = "Ok"
               /\ token.kind = "Semicolon")
           => LET name == input[Top.keyword.hi + 2].text
              IN  /\ ret'.tag = "Ok"
                  /\ ret'.val.function.variant
                        = (CASE name = "assert" -> "Assert"
                             [] name = "error"  -> "Error"
                             [] OTHER           -> "Log")
                  /\ ret'.val.function.args = ret.val ]_vars

\* `console.frob("s");` has been parsed.
C8_Witness ==
    /\ Returned("Console")
    /\ input[Top.at + 2].text = "frob"
    /\ ret.val.function.variant = "Log"
    /\ ret.val.function.args.string = "s"
    /\ Len(errs) = 1
    /\ errs[1].kind = "unexpected_ident"

----------------------------------------------------------------------------
(* C9 *)

\* C9: every DefinitionStatement that parse_definition_statement returns
\* holds at least one VariableName.
C9_AtLeastOneVariableName ==
    Returned("Definition") => Len(ret.val.variable_names) >= 1

----------------------------------------------------------------------------
(* C10 *)

\* A parse_statement that returns a statement has moved the cursor on.
StatementAdvances ==
    (At("parse_statement", "ret") /\ ret.tag = "Ok") => Cursor > Top.at

\* C10: every parse_statement that returns a statement has consumed at least
\* one token, the cursor never moves back, and so every parse (every
\* parse_block in it, its closing delimiter missing or not) comes to its end,
\* with a node or with a fatal error.
C10_ParseTerminates ==
    /\ []StatementAdvances
    /\ [][Cursor' >= Cursor]_vars
    /\ [](Done => ret.tag \in {"Ok", "Err"})
    /\ <>Done

\* A block whose closing delimiter is missing: after a statement, the stream ends.
C10_Witness ==
    /\ At("parse_block", "push")
    /\ Len(Top.statements) >= 1
    /\ token.kind = "Eof"
    /\ ret.tag = "Err"

====
